---- MODULE Spec2Model ----
(***************************************************************************)
(* Juju time tracker: the tray session tracker (tray.js), the session      *)
(* store (src/main/data-manager.js) and the notes dialog                   *)
(* (src/main/window-manager.js), as a state machine.                       *)
(*                                                                         *)
(* Time is in milliseconds since 00:00:00.000 UTC of day BaseDay (days     *)
(* since 1970-01-01), so that every instant fits a 32-bit integer.         *)
(* An ISO string (Date.toISOString) is modelled by the instant it denotes: *)
(* it has millisecond precision and new Date(iso) parses it back exactly.  *)
(***************************************************************************)
EXTENDS Integers, Sequences, FiniteSets, Bags, TLC

VARIABLES
    isSessionActive,      \* tray.js: let isSessionActive
    currentProjectName,   \* tray.js: let currentProjectName (NullName = null)
    sessionStartTime,     \* tray.js: let sessionStartTime (NullTime = null)
    timerIntervalId,      \* tray.js: let timerIntervalId (TRUE = an interval is set)
    menu,                 \* first item of the context menu last set: "start" | "stop"
    menuUpdatePending,    \* some updateTrayMenu call awaits loadProjects
    dialogs,              \* bag of open notes dialogs, by the serial of their session
    saves,                \* in-flight saveSession calls
    edits,                \* in-flight updateSessionInCSV / deleteSession calls
    file,                 \* data.csv
    now,                  \* the clock (Date.now())
    tz,                   \* local time zone, minutes east of UTC
    started,              \* number of sessions started so far
    nEdits,               \* number of update/delete calls issued so far
    ticks,                \* number of clock steps so far
    errorLog,             \* serials of the sessions whose save failure endSession logged
    lastEvent,            \* the handler that ran last and what it saw
    lastResult,           \* outcome of the store call that settled last
    acked,                \* the update and delete calls that returned true
    projectStore,         \* projects.json and the calls on it
    stats                 \* the last reply of the get-comparison-stats handler

vars == <<isSessionActive, currentProjectName, sessionStartTime, timerIntervalId,
          menu, menuUpdatePending, dialogs, saves, edits, file, now, tz,
          started, nEdits, ticks, errorLog, lastEvent, lastResult, acked,
          projectStore, stats>>

trackerVars == <<isSessionActive, currentProjectName, sessionStartTime>>

-----------------------------------------------------------------------------
(* Bounds *)

MaxSessions == 1
MaxEdits == 1
MaxTicks == 1
MaxDialogs == 1
MaxProjectCalls == 2
MaxRacing == 2
MaxRestarts == 2
MaxPending == 2
FirstToday == 84
MaxToday == 151
MaxDaysBack == 125
BaseDay == 19723

(* Program constants *)

MsPerMinute == 60000
DayMs == 24 * 60 * 60 * 1000

NullName == "<null>"
NullTime == -1

-----------------------------------------------------------------------------
(* Text values.  A string is a sequence of atoms: a word, a number, a time *)
(* hh:mm[:ss] or a date; the empty sequence is the empty string.           *)

Str(s) == <<[k |-> "str", s |-> s, n |-> <<>>]>>
Num(i) == <<[k |-> "num", s |-> "", n |-> <<i>>]>>
TimeOfDay(parts) == <<[k |-> "time", s |-> "", n |-> parts]>>
DateStr(ymd) == <<[k |-> "date", s |-> "", n |-> ymd]>>
Empty == <<>>

\* Math.round of the rational a/b (b > 0): floor(a/b + 1/2)
Round(a, b) == (2 * a + b) \div (2 * b)

\* Date.prototype.toISOString().split('T')[0]: the UTC calendar date
CivilFromDays(days) ==
    LET z == days + 719468
        era == z \div 146097
        doe == z - era * 146097
        yoe == (doe - doe \div 1460 + doe \div 36524 - doe \div 146096) \div 365
        doy == doe - (365 * yoe + yoe \div 4 - yoe \div 100)
        mp == (5 * doy + 2) \div 153
        d == doy - (153 * mp + 2) \div 5 + 1
        m == IF mp < 10 THEN mp + 3 ELSE mp - 9
        y == yoe + era * 400 + (IF m <= 2 THEN 1 ELSE 0)
    IN <<y, m, d>>

IsoDate(t) == DateStr(CivilFromDays(BaseDay + t \div DayMs))

\* Date.prototype.toTimeString().split(' ')[0]: local HH:MM:SS, milliseconds dropped
ToTimeString(t, zone) ==
    LET tod == (t + zone * MsPerMinute) % DayMs
    IN TimeOfDay(<<tod \div 3600000, (tod % 3600000) \div 60000, (tod % 60000) \div 1000>>)

\* parseInt(v, 10) || 0
ParseIntOr0(v) ==
    IF v = Empty THEN 0
    ELSE IF v[1].k = "str" THEN 0
    ELSE v[1].n[1]

-----------------------------------------------------------------------------
(* Objects: sequences of <<key, value>> pairs in insertion order.          *)

Keys(o) == [i \in 1..Len(o) |-> o[i][1]]
Has(o, key) == \E i \in 1..Len(o) : o[i][1] = key
Get(o, key) == IF Has(o, key) THEN o[CHOOSE i \in 1..Len(o) : o[i][1] = key][2] ELSE Empty
Put(o, key, v) ==
    IF Has(o, key) THEN [i \in 1..Len(o) |-> IF o[i][1] = key THEN <<key, v>> ELSE o[i]]
    ELSE Append(o, <<key, v>>)
Without(o, key) == SelectSeq(o, LAMBDA p : p[1] # key)

-----------------------------------------------------------------------------
(* data.csv.  A file is a sequence of lines; a line is its cells and the   *)
(* line break that follows it ("" for a last line with no line break).     *)
(* Every cell the store writes is quoted (quotes: true), except the header *)
(* line of saveSession, whose cells need no quotes.                        *)

LF == "\n"
CRLF == "\r\n"

Line(cells, eol) == [cells |-> cells, eol |-> eol]
HEADERS == <<Str("date"), Str("start_time"), Str("end_time"), Str("duration_minutes"),
             Str("project"), Str("notes")>>
HeaderLine(columns, eol) == Line(columns, eol)

NoFile == [exists |-> FALSE, lines |-> <<>>]
EmptyFile == [exists |-> TRUE, lines |-> <<>>]
LegacyFile == [exists |-> TRUE, lines |-> <<HeaderLine(HEADERS, LF)>>]
FileOf(lines) == [exists |-> TRUE, lines |-> lines]

\* Papa.parse: guessLineEndings. Every "\r" of a file is the start of a
\* CRLF line break, so the guess is "\n" when no line break is CRLF or the
\* first one is LF, and "\r\n" otherwise.
GuessLineEndings(lines) ==
    LET breaks == SelectSeq(lines, LAMBDA l : l.eol # "")
    IN IF breaks = <<>> \/ breaks[1].eol = LF THEN LF ELSE CRLF

\* Two quoted lines with no line break (of the parser's kind) between them:
\* the closing quote of the last cell is not followed by a delimiter or a
\* newline, so the parser reads on to the closing quote of the next line's
\* first cell and takes the text in between into the cell.
Glue(a, sep, b) ==
    SubSeq(a, 1, Len(a) - 1) \o <<a[Len(a)] \o sep \o b[1]>> \o Tail(b)

QuoteNewlineQuote == Str("\"\n\"")
Quote == Str("\"")

\* Papa.parse: the rows of the text, as sequences of cells.
RECURSIVE RowsFrom(_, _, _)
RowsFrom(lines, i, newline) ==
    IF i > Len(lines) THEN <<>>
    ELSE IF i < Len(lines) /\ lines[i].eol = ""
         THEN RowsFrom([lines EXCEPT ![i + 1].cells = Glue(lines[i].cells, Quote, @)],
                       i + 1, newline)
    ELSE IF i < Len(lines) /\ lines[i].eol = LF /\ newline = CRLF
         THEN RowsFrom([lines EXCEPT ![i + 1].cells = Glue(lines[i].cells, QuoteNewlineQuote, @)],
                       i + 1, newline)
    ELSE <<lines[i].cells>> \o RowsFrom(lines, i + 1, newline)

\* Papa.parse, header: true: the object of one row. A cell beyond the header
\* goes to the array __parsed_extra, kept here as the text it is written
\* back as (Array.prototype.toString joins with commas).
ParsedExtra == Str("__parsed_extra")
Comma == Str(",")
RECURSIVE RowObject(_, _, _)
RowObject(fields, cells, j) ==
    IF j = 0 THEN <<>>
    ELSE LET o == RowObject(fields, cells, j - 1)
         IN IF j <= Len(fields) THEN Put(o, fields[j], cells[j])
            ELSE IF Has(o, ParsedExtra)
                 THEN Put(o, ParsedExtra, Get(o, ParsedExtra) \o Comma \o cells[j])
                 ELSE Put(o, ParsedExtra, cells[j])

\* Papa.parse(csvData, {header: true, skipEmptyLines: true}).data
PapaParse(lines) ==
    LET all == RowsFrom(lines, 1, GuessLineEndings(lines))
        rows == SelectSeq(all, LAMBDA r : r # <<Empty>>)
    IN IF rows = <<>> THEN <<>>
       ELSE [i \in 1..(Len(rows) - 1) |-> RowObject(rows[1], rows[i + 1], Len(rows[i + 1]))]

\* Papa.unparse(data, {columns, header: true, quotes: true, newline}); with no
\* columns option the columns are the keys of the first object, and an empty
\* array gives the empty text.
PapaUnparse(data, columns, newline) ==
    IF data = <<>> /\ columns = <<>> THEN <<>>
    ELSE LET n == Len(data)
             cols == IF columns = <<>> THEN Keys(data[1]) ELSE columns
         IN [i \in 1..(n + 1) |->
                Line(IF i = 1 THEN cols
                     ELSE [c \in 1..Len(cols) |-> Get(data[i - 1], cols[c])],
                     IF i = n + 1 THEN "" ELSE newline)]

ID == Str("id")
DATE == Str("date")
START_TIME == Str("start_time")
END_TIME == Str("end_time")
DURATION_MINUTES == Str("duration_minutes")
PROJECT == Str("project")
NOTES == Str("notes")

\* loadSessionsFromCSV, given the file read
loadSessionsFromCSV(f) ==
    IF ~f.exists THEN <<>>
    ELSE LET data == PapaParse(f.lines)
         IN [i \in 1..Len(data) |->
                Put(Put(data[i], ID, Num(i - 1)),
                    DURATION_MINUTES, Num(ParseIntOr0(Get(data[i], DURATION_MINUTES))))]

\* sessions.map(({ id, ...rest }) => rest)
StripId(sessions) == [i \in 1..Len(sessions) |-> Without(sessions[i], ID)]

-----------------------------------------------------------------------------
(* updateSessionInCSV and deleteSession, given the sessions loaded *)

\* session.start_time.split(':').map(Number): only hh:mm and hh:mm:ss give
\* numbers that Date.prototype.setHours accepts
TimeParts(v) == IF Len(v) = 1 /\ v[1].k = "time" THEN v[1].n ELSE <<>>
SecondsOfDay(parts) ==
    parts[1] * 3600 + parts[2] * 60 + (IF Len(parts) >= 3 THEN parts[3] ELSE 0)

\* the duration between two times taken on the same day, whichever is earlier
RecalculatedDurationSameDay(start, end) ==
    LET sp == TimeParts(start)
        ep == TimeParts(end)
    IN IF Len(sp) < 2 \/ Len(ep) < 2 THEN Str("NaN")
       ELSE Num(Round((SecondsOfDay(ep) - SecondsOfDay(sp)) * 1000, MsPerMinute))

\* the duration between two times of one local day, the end moved to the
\* next day when it is earlier than the start; "NaN" for an invalid Date
RecalculatedDuration(start, end) ==
    LET sp == TimeParts(start)
        ep == TimeParts(end)
    IN IF Len(sp) < 2 \/ Len(ep) < 2 THEN Str("NaN")
       ELSE LET startDate == SecondsOfDay(sp)
                endDate == IF SecondsOfDay(ep) < startDate
                           THEN SecondsOfDay(ep) + 24 * 3600
                           ELSE SecondsOfDay(ep)
            IN Num(Round((endDate - startDate) * 1000, MsPerMinute))

\* sessions.findIndex(s => s.id === targetId), 0 when there is none
FindIndex(sessions, targetId) ==
    IF \E i \in 1..Len(sessions) : Get(sessions[i], ID) = Num(targetId)
    THEN CHOOSE i \in 1..Len(sessions) :
            /\ Get(sessions[i], ID) = Num(targetId)
            /\ \A j \in 1..(i - 1) : Get(sessions[j], ID) # Num(targetId)
    ELSE 0

\* the session after sessions[sessionIndex][field] = value and the
\* recalculation of its duration
UpdatedSession(session, field, value) ==
    LET set == Put(session, field, value)
    IN IF field \in {START_TIME, END_TIME}
          /\ Get(set, START_TIME) # Empty /\ Get(set, END_TIME) # Empty
       THEN Put(set, DURATION_MINUTES,
                RecalculatedDuration(Get(set, START_TIME), Get(set, END_TIME)))
       ELSE set

\* the text updateSessionInCSV writes
UpdatedCsv(sessions, sessionIndex, field, value) ==
    LET updated == [sessions EXCEPT ![sessionIndex] = UpdatedSession(@, field, value)]
        dataToWrite == StripId(updated)
        headers == IF Len(dataToWrite) > 0 THEN Keys(dataToWrite[1]) ELSE HEADERS
    IN PapaUnparse(dataToWrite, headers, LF)

\* sessions.splice(sessionIndex, 1)
Splice(sessions, sessionIndex) ==
    [i \in 1..(Len(sessions) - 1) |->
        IF i < sessionIndex THEN sessions[i] ELSE sessions[i + 1]]

\* the text deleteSession writes
DeletedCsv(sessions, sessionIndex) ==
    PapaUnparse(StripId(Splice(sessions, sessionIndex)), <<>>, CRLF)

-----------------------------------------------------------------------------
(* saveSession *)

\* dataToAppend, as the line Papa.unparse makes of it
CsvFragment(sessionData, zone) ==
    Line(<<IsoDate(sessionData.startTime),
           ToTimeString(sessionData.startTime, zone),
           ToTimeString(sessionData.endTime, zone),
           Num(sessionData.durationMinutes),
           Str(sessionData.projectName),
           sessionData.notes>>, "")

\* fs.appendFile(path, (prefix ? "\n" : "") + fragment)
AppendText(f, newlinePrefix, fragment) ==
    LET n == Len(f.lines)
        before == IF ~newlinePrefix THEN f.lines
                  ELSE IF n = 0 \/ f.lines[n].eol # ""
                       THEN Append(f.lines, Line(<<Empty>>, LF))
                       ELSE [f.lines EXCEPT ![n].eol = LF]
    IN FileOf(Append(before, fragment))

\* fileStat.size === 0
IsEmptyFile(f) == f.lines = <<>>
\* the last byte of a file that is not empty is "\n"
EndsWithNewline(f) == f.lines[Len(f.lines)].eol # ""

-----------------------------------------------------------------------------
(* Local dates (src/main/utils.js and the Date object).  A Date at local    *)
(* midnight is the number of its day since 1970-01-01; an instant of local  *)
(* time is in seconds since 1970-01-01 00:00:00 local time.                 *)

DaySeconds == 24 * 60 * 60

\* MakeDay(year, month, date) of the Date object: month counts from 0 and,
\* as date, may be any integer
MakeDay(year, month, date) ==
    LET ym == year + month \div 12
        mn == month % 12
        y == IF mn < 2 THEN ym - 1 ELSE ym
        era == y \div 400
        yoe == y - era * 400
        mp == IF mn < 2 THEN mn + 10 ELSE mn - 2
        doy == (153 * mp + 2) \div 5
        doe == yoe * 365 + yoe \div 4 - yoe \div 100 + doy
    IN era * 146097 + doe - 719468 + (date - 1)

getFullYear(date) == CivilFromDays(date)[1]
getMonth(date) == CivilFromDays(date)[2] - 1
getDate(date) == CivilFromDays(date)[3]
\* 0 = Sunday, ..., 6 = Saturday; 1970-01-01 was a Thursday
getDay(date) == (date + 4) % 7
setDate(date, dayValue) == MakeDay(getFullYear(date), getMonth(date), dayValue)
setMonth(date, monthValue, dayValue) == MakeDay(getFullYear(date), monthValue, dayValue)

\* getStartOfWeek with the adjustment of a weekday (day - 1 days back) for
\* Sunday too
getStartOfWeekSundayFirst(date) ==
    LET day == getDay(date)
    IN setDate(date, getDate(date) - day + 1)

getStartOfWeek(date) ==
    LET day == getDay(date)
        diff == getDate(date) - day + (IF day = 0 THEN -6 ELSE 1)
    IN setDate(date, diff)

getStartOfMonth(date) == MakeDay(getFullYear(date), getMonth(date), 1)

formatDateYYYYMMDD(date) == DateStr(CivilFromDays(date))

MonthNames == <<"Jan", "Feb", "Mar", "Apr", "May", "Jun",
                "Jul", "Aug", "Sep", "Oct", "Nov", "Dec">>
\* toLocaleDateString('en-US', { month: 'short', day: 'numeric' })
formatShortDate(date) == <<MonthNames[getMonth(date) + 1], getDate(date)>>

DayNames == <<"Sunday", "Monday", "Tuesday", "Wednesday", "Thursday", "Friday", "Saturday">>
getDayName(day) == DayNames[day + 1]

\* new Date(text + 'T' + clock): the instant of local time, if text is a date
NotADate == [valid |-> FALSE, time |-> 0]
DateOf(text, clock) ==
    IF Len(text) = 1 /\ text[1].k = "date"
    THEN [valid |-> TRUE,
          time |-> MakeDay(text[1].n[1], text[1].n[2] - 1, text[1].n[3]) * DaySeconds
                   + clock[1] * 3600 + clock[2] * 60 + clock[3]]
    ELSE NotADate

-----------------------------------------------------------------------------
(* src/main/ipc-handlers.js: the comparison statistics *)

RECURSIVE Gcd(_, _)
Gcd(a, b) == IF b = 0 THEN a ELSE Gcd(b, a % b)
\* Math.round(totalMinutes / 60)
HoursRounded(totalMinutes) == <<Round(totalMinutes, 60), 1>>

\* totalMinutes / 60, as the fraction in lowest terms
Hours(totalMinutes) ==
    LET a == IF totalMinutes < 0 THEN -totalMinutes ELSE totalMinutes
        g == Gcd(60, a)
    IN <<totalMinutes \div g, 60 \div g>>

\* the sessions.forEach of calculateTotalHours with a test of the start of
\* the range alone
RECURSIVE TotalMinutesFrom(_, _, _)
TotalMinutesFrom(sessions, start, end) ==
    IF sessions = <<>> THEN 0
    ELSE LET sessionDate == DateOf(Get(Head(sessions), DATE), <<0, 0, 0>>)
             counted == /\ sessionDate.valid
                        /\ start.valid /\ sessionDate.time >= start.time
         IN (IF counted THEN ParseIntOr0(Get(Head(sessions), DURATION_MINUTES)) ELSE 0)
            + TotalMinutesFrom(Tail(sessions), start, end)

\* the sessions.forEach of calculateTotalHours
RECURSIVE TotalMinutes(_, _, _)
TotalMinutes(sessions, start, end) ==
    IF sessions = <<>> THEN 0
    ELSE LET sessionDate == DateOf(Get(Head(sessions), DATE), <<0, 0, 0>>)
             counted == /\ sessionDate.valid
                        /\ start.valid /\ sessionDate.time >= start.time
                        /\ end.valid /\ sessionDate.time <= end.time
         IN (IF counted THEN ParseIntOr0(Get(Head(sessions), DURATION_MINUTES)) ELSE 0)
            + TotalMinutes(Tail(sessions), start, end)

calculateTotalHours(sessions, startDateStr, endDateStr) ==
    Hours(TotalMinutes(sessions, DateOf(startDateStr, <<0, 0, 0>>),
                       DateOf(endDateStr, <<23, 59, 59>>)))

Stat3(value, label, range) == [value |-> value, label |-> label, range |-> range]

\* one turn of the loop of the day comparison
PastDay(sessions, today, i) ==
    LET pastDate == setDate(today, getDate(today) - i * 7)
        pastDateStr == formatDateYYYYMMDD(pastDate)
        dayName == getDayName(getDay(today))
    IN Stat3(calculateTotalHours(sessions, pastDateStr, pastDateStr),
             IF i = 3 THEN <<"3 ", dayName, "s Ago">>
             ELSE IF i = 2 THEN <<"2 ", dayName, "s Ago">>
             ELSE <<"Last ", dayName>>,
             formatShortDate(pastDate))

\* one turn of the loop of the week comparison
PastWeek(sessions, today, i) ==
    LET pastWeekEndDate == setDate(today, getDate(today) - i * 7)
        pastWeekStartDate == getStartOfWeek(pastWeekEndDate)
    IN Stat3(calculateTotalHours(sessions, formatDateYYYYMMDD(pastWeekStartDate),
                                 formatDateYYYYMMDD(pastWeekEndDate)),
             IF i = 3 THEN <<"3 Weeks Ago">>
             ELSE IF i = 2 THEN <<"2 Weeks Ago">>
             ELSE <<"Last Week">>,
             <<formatShortDate(pastWeekStartDate), formatShortDate(pastWeekEndDate)>>)

\* the end of a past month window without the step back to the month's
\* last day
PastMonthEndOverflowing(today, i) == setMonth(today, getMonth(today) - i, getDate(today))

PastMonthEnd(today, i) ==
    LET todayDateOfMonth == getDate(today)
        pastMonthEndDate == setMonth(today, getMonth(today) - i, todayDateOfMonth)
    IN IF getDate(pastMonthEndDate) # todayDateOfMonth
       THEN setDate(pastMonthEndDate, 0)
       ELSE pastMonthEndDate

\* one turn of the loop of the month comparison
PastMonth(sessions, today, i) ==
    LET pastMonthEndDate == PastMonthEnd(today, i)
        pastMonthStartDate == setDate(pastMonthEndDate, 1)
    IN Stat3(calculateTotalHours(sessions, formatDateYYYYMMDD(pastMonthStartDate),
                                 formatDateYYYYMMDD(pastMonthEndDate)),
             IF i = 3 THEN <<"3 Months Ago">>
             ELSE IF i = 2 THEN <<"2 Months Ago">>
             ELSE <<"Last Month">>,
             <<formatShortDate(pastMonthStartDate), formatShortDate(pastMonthEndDate)>>)

\* what the get-comparison-stats handler returns on the day today, the
\* Date after today.setHours(0, 0, 0, 0); the past windows are oldest first
ComparisonStats(sessions, today) ==
    LET todayStr == formatDateYYYYMMDD(today)
        startOfThisWeek == getStartOfWeek(today)
        startOfThisMonth == getStartOfMonth(today)
    IN [day |->
            [current |-> Stat3(calculateTotalHours(sessions, todayStr, todayStr),
                               <<"Today">>, formatShortDate(today)),
             past |-> [k \in 1..3 |-> PastDay(sessions, today, 4 - k)]],
        week |->
            [current |-> Stat3(calculateTotalHours(sessions,
                                   formatDateYYYYMMDD(startOfThisWeek), todayStr),
                               <<"This Week">>,
                               <<formatShortDate(startOfThisWeek), formatShortDate(today)>>),
             past |-> [k \in 1..3 |-> PastWeek(sessions, today, 4 - k)]],
        month |->
            [current |-> Stat3(calculateTotalHours(sessions,
                                   formatDateYYYYMMDD(startOfThisMonth), todayStr),
                               <<"This Month">>,
                               <<formatShortDate(startOfThisMonth), formatShortDate(today)>>),
             past |-> [k \in 1..3 |-> PastMonth(sessions, today, 4 - k)]]]

\* the month comparison of the earlier version of the handler: last month
\* alone
LastMonthComparable(today) ==
    LET startOfLastMonth == MakeDay(getFullYear(today), getMonth(today) - 1, 1)
        endOfLastMonthComparable == setDate(startOfLastMonth, getDate(today))
    IN <<startOfLastMonth,
         IF getMonth(endOfLastMonthComparable) # getMonth(startOfLastMonth)
         THEN setDate(endOfLastMonthComparable, 0)
         ELSE endOfLastMonthComparable>>

NoStats == [asked |-> FALSE, today |-> 0, reply |-> <<>>]

-----------------------------------------------------------------------------
(* projects.json *)

\* A string the project store compares or tests is the sequence of its
\* characters.
HexDigits == {"0", "1", "2", "3", "4", "5", "6", "7", "8", "9",
              "a", "b", "c", "d", "e", "f", "A", "B", "C", "D", "E", "F"}
WhiteSpace == {" ", "\t", "\n"}

\* String.prototype.toLowerCase, on the letters the inputs use
LowerOf(c) ==
    CASE c = "W" -> "w" [] c = "R" -> "r" [] c = "I" -> "i" [] c = "T" -> "t"
      [] c = "N" -> "n" [] c = "G" -> "g" [] c = "L" -> "l" [] c = "U" -> "u"
      [] OTHER -> c
toLowerCase(s) == [i \in 1..Len(s) |-> LowerOf(s[i])]

\* String.prototype.trim
RECURSIVE TrimStart(_)
TrimStart(s) ==
    IF s # <<>> /\ Head(s) \in WhiteSpace THEN TrimStart(Tail(s)) ELSE s
RECURSIVE TrimEnd(_)
TrimEnd(s) ==
    IF s # <<>> /\ s[Len(s)] \in WhiteSpace
    THEN TrimEnd(SubSeq(s, 1, Len(s) - 1)) ELSE s
trim(s) == TrimEnd(TrimStart(s))

\* the test of a pattern with no $ at its end
IsHexColorUnanchored(color) ==
    /\ Len(color) >= 7
    /\ color[1] = "#"
    /\ \A i \in 2..7 : color[i] \in HexDigits

\* /^#[0-9A-Fa-f]{6}$/.test(color)
IsHexColor(color) ==
    /\ Len(color) = 7
    /\ color[1] = "#"
    /\ \A i \in 2..7 : color[i] \in HexDigits

\* An entry of the array in projects.json.  id = NoId stands for an entry
\* with no id or a null one, hasName = FALSE for one whose name is missing or
\* is not a string, isObject = FALSE for a number, a string or null.
NoId == 0
NoColor == <<>>
Project(id, name, color) ==
    [isObject |-> TRUE, id |-> id, hasName |-> TRUE, name |-> name, color |-> color]
Nameless(id, color) ==
    [isObject |-> TRUE, id |-> id, hasName |-> FALSE, name |-> <<>>, color |-> color]
NonObject ==
    [isObject |-> FALSE, id |-> NoId, hasName |-> FALSE, name |-> <<>>, color |-> NoColor]

Unnamed == <<"U", "n", "n", "a", "m", "e", "d">>
DefaultColor == <<"#", "4", "E", "7", "9", "A", "7">>
\* Date.now().toString() + Math.random().toString(36).substring(2, 5): the
\* k-th id the store generates
GeneratedId(k) == 100 + k

\* The content of projects.json: none, text JSON.parse throws on, JSON that
\* is not an array, an array, or an array in a file that fs.readFile fails
\* on with an error other than ENOENT.
NoProjectsFile == [kind |-> "absent", entries |-> <<>>]
Unparseable == [kind |-> "unparseable", entries |-> <<>>]
NotAnArray == [kind |-> "not an array", entries |-> <<>>]
ArrayFile(entries) == [kind |-> "array", entries |-> entries]
Unreadable(entries) == [kind |-> "unreadable", entries |-> entries]

\* projects.map(...).filter(project => project !== null), with the ids that
\* are generated counted from k
RECURSIVE Migrated(_, _)
Migrated(entries, k) ==
    IF entries = <<>>
    THEN [projects |-> <<>>, needsRewrite |-> FALSE, generated |-> k]
    ELSE LET project == Head(entries)
             lacksId == project.isObject /\ project.id = NoId
             rest == Migrated(Tail(entries), IF lacksId THEN k + 1 ELSE k)
         IN IF lacksId
            THEN [rest EXCEPT !.projects = <<[project EXCEPT !.id = GeneratedId(k)]>> \o @,
                              !.needsRewrite = TRUE]
            ELSE IF ~project.isObject
            THEN [rest EXCEPT !.needsRewrite = TRUE]
            ELSE IF ~project.hasName
            THEN [rest EXCEPT !.projects = <<[project EXCEPT !.hasName = TRUE,
                                                            !.name = Unnamed]>> \o @,
                              !.needsRewrite = TRUE]
            ELSE [rest EXCEPT !.projects = <<project>> \o @]

\* loadAndMigrateProjects on the content f: the list it returns, whether it
\* wrote the file, the content the file has after it, and the count of
\* generated ids
loadAndMigrateProjects(f, k) ==
    IF f.kind \in {"absent", "unparseable", "unreadable"}
    THEN [projects |-> <<>>, wrote |-> FALSE, file |-> f, generated |-> k]
    ELSE LET m == Migrated(f.entries, k)
             needsRewrite == f.kind = "not an array" \/ m.needsRewrite
         IN [projects |-> m.projects,
             wrote |-> needsRewrite,
             file |-> IF needsRewrite THEN ArrayFile(m.projects) ELSE f,
             generated |-> m.generated]

\* The project store: the content of projects.json, the calls that have
\* loaded and not yet written, the count of calls and of generated ids, and
\* the outcome of the call that settled last.
NoProjectResult ==
    [serial |-> 0, op |-> "none", ok |-> TRUE, error |-> "", id |-> NoId, name |-> <<>>,
     color |-> NoColor, projects |-> <<>>, wrote |-> FALSE]
ProjectResult(serial, op, ok, error, id, name, color, projects, wrote) ==
    [serial |-> serial, op |-> op, ok |-> ok, error |-> error, id |-> id, name |-> name,
     color |-> color, projects |-> projects, wrote |-> wrote]
ProjectStoreOf(f) ==
    [file |-> f, calls |-> {}, nCalls |-> 0, generated |-> 0,
     result |-> NoProjectResult]
ProjectCall(serial, op, id, name, color, out) ==
    [serial |-> serial, op |-> op, id |-> id, name |-> name, color |-> color, out |-> out]

\* projects.findIndex(p => p.id === id), 0 for -1
FindProjectIndex(projects, id) ==
    IF \E i \in 1..Len(projects) : projects[i].id = id
    THEN CHOOSE i \in 1..Len(projects) :
             /\ projects[i].id = id
             /\ \A j \in 1..(i - 1) : projects[j].id # id
    ELSE 0

\* a filter that drops the project and every project before it
RECURSIVE WithoutProjectAndEarlier(_, _)
WithoutProjectAndEarlier(projects, id) ==
    IF projects = <<>> THEN <<>>
    ELSE IF \E i \in 1..Len(projects) : projects[i].id = id
    THEN WithoutProjectAndEarlier(Tail(projects), id)
    ELSE projects

\* projects.filter(p => p.id !== id)
RECURSIVE WithoutProject(_, _)
WithoutProject(projects, id) ==
    IF projects = <<>> THEN <<>>
    ELSE IF Head(projects).id = id THEN WithoutProject(Tail(projects), id)
    ELSE <<Head(projects)>> \o WithoutProject(Tail(projects), id)

\* projects.some(p => p.name.toLowerCase() === trimmedName.toLowerCase()):
\* "TypeError" when it reaches a project whose name is no string before it
\* finds the name
RECURSIVE SomeNamed(_, _)
SomeNamed(projects, trimmedName) ==
    IF projects = <<>> THEN "false"
    ELSE IF ~Head(projects).hasName THEN "TypeError"
    ELSE IF toLowerCase(Head(projects).name) = toLowerCase(trimmedName) THEN "true"
    ELSE SomeNamed(Tail(projects), trimmedName)

-----------------------------------------------------------------------------
(* Inputs *)

ProjectInputs == {"Writing", ""}
NotesInputs == {Str("draft"), Empty}
ClockSteps == {29500, 90 * MsPerMinute}
TimeZones == {0, -600}
StartOfClock == 9 * 3600000 + 900
SessionIds == 0..MaxSessions
UpdateInputs ==
    {<<START_TIME, TimeOfDay(<<23, 0, 0>>)>>, <<END_TIME, TimeOfDay(<<1, 0, 0>>)>>,
     <<START_TIME, Empty>>,
     <<NOTES, Str("edited")>>, <<DURATION_MINUTES, Num(5)>>}

\* an update of a field that is no column of the file
FieldInputs == {<<Str("tags"), Str("deep")>>}

\* the sessions the store is asked to save: a start, the time to the stop
\* and the notes
SaveInputs == {<<StartOfClock, 29500, Empty>>,
               <<StartOfClock, 90 * MsPerMinute, Str("draft")>>}

Writing == <<"W", "r", "i", "t", "i", "n", "g">>
Red == <<"#", "F", "F", "0", "0", "0", "0">>
\* the project of the Start Session submenu, as projects.json stores it
WritingProject == Project(1, Writing, DefaultColor)
\* entries of a projects.json that the program did not write: a project of
\* an old version with no id, one whose name is a number, a number, and an
\* object with a colour alone
LegacyProject == Project(NoId, <<"L", "e", "g", "a", "c", "y">>, NoColor)
NumberNamed == Nameless(2, Red)
Bare == Nameless(NoId, Red)
EntryInputs == {WritingProject, LegacyProject, NumberNamed, NonObject, Bare}
ProjectFiles ==
    {NoProjectsFile, Unparseable, NotAnArray, ArrayFile(<<>>), Unreadable(<<WritingProject>>)}
    \cup {ArrayFile(<<a>>) : a \in EntryInputs}
    \cup {ArrayFile(<<ab[1], ab[2]>>) :
             ab \in {pair \in EntryInputs \X EntryInputs : pair[1] # pair[2]}}
ProjectIds == {1, 3}
NameInputs == {<<" ", "W", "R", "I", "T", "I", "N", "G", " ">>, <<"C">>, <<>>, <<" ">>}
AddColorInputs == {NoColor, Red}
ColorInputs ==
    {Red, <<"#", "a", "1", "B", "2", "c", "3">>,
     <<"F", "F", "0", "0", "0", "0", "0">>, <<"#", "F", "F", "0", "0", "0">>,
     <<"#", "F", "F", "0", "0", "0", "0", "0">>, <<"#", "G", "G", "0", "0", "0", "0">>,
     <<>>}

\* the days on which the statistics are asked for, and the days of the
\* sessions stored by then: from before the earliest window to tomorrow
TodayInputs == {BaseDay + k : k \in FirstToday..MaxToday}
SessionDays == {BaseDay + k : k \in (FirstToday - MaxDaysBack)..(MaxToday + 1)}
\* a date cell that is no date, as an update of the dashboard can leave it
NoDate == Str("soon")
StatsRow(date, minutes) ==
    Line(<<date, TimeOfDay(<<9, 0, 0>>), TimeOfDay(<<9 + minutes \div 60, minutes % 60, 0>>),
           Num(minutes), Str("Writing"), Empty>>, LF)
\* sessions files: no session; one session of two hours; sessions on two
\* days running and one whose date is no date
StatsFiles ==
    {EmptyFile, LegacyFile}
    \cup {FileOf(<<HeaderLine(HEADERS, LF), StatsRow(formatDateYYYYMMDD(d), 120)>>) :
             d \in SessionDays}
    \cup {FileOf(<<HeaderLine(HEADERS, LF), StatsRow(formatDateYYYYMMDD(d), 120),
                   StatsRow(formatDateYYYYMMDD(d + 1), 45), StatsRow(NoDate, 30)>>) :
             d \in SessionDays}

NoEvent == [op |-> "none", wasActive |-> FALSE]
Event(op) == [op |-> op, wasActive |-> isSessionActive]
NoResult == [op |-> "none", ok |-> TRUE, error |-> "", id |-> 0]
Result(op, ok, error, id) == [op |-> op, ok |-> ok, error |-> error, id |-> id]

\* the session data endSession hands to saveSession
SessionDataOf(startTime, endTime, projectName, notes) ==
    [startTime |-> startTime,
     endTime |-> endTime,
     durationMinutes |-> Round(endTime - startTime, MsPerMinute),
     projectName |-> projectName,
     notes |-> notes]

\* a call of saveSession, up to its first await
SaveCallOf(serial, sessionData) ==
    [serial |-> serial, data |-> sessionData, pc |-> "stat",
     fileNeedsHeader |-> FALSE, fileNeedsNewlinePrefix |-> FALSE]

\* the state after construction, but for the file and the time zone
Fresh ==
    /\ isSessionActive = FALSE
    /\ currentProjectName = NullName
    /\ sessionStartTime = NullTime
    /\ timerIntervalId = FALSE
    /\ menu = "start"
    /\ menuUpdatePending = FALSE
    /\ dialogs = EmptyBag
    /\ saves = {}
    /\ edits = {}
    /\ now = StartOfClock
    /\ started = 0
    /\ nEdits = 0
    /\ ticks = 0
    /\ errorLog = {}
    /\ lastEvent = NoEvent
    /\ lastResult = NoResult
    /\ acked = {}
    /\ stats = NoStats

\* the tray application after ensureDataFilesExist and createTray
Init ==
    /\ Fresh
    /\ file = EmptyFile
    /\ tz \in TimeZones
    /\ projectStore = ProjectStoreOf(ArrayFile(<<WritingProject>>))

\* a sessions file to which earlier runs have saved two sessions
StoredFile ==
    FileOf(<<HeaderLine(HEADERS, LF),
             [CsvFragment(SessionDataOf(8 * 3600000, 8 * 3600000 + 30 * MsPerMinute,
                                        "Reading", Str("plan")), 0) EXCEPT !.eol = LF],
             CsvFragment(SessionDataOf(23 * 3600000, 23 * 3600000 + 30 * MsPerMinute,
                                       "Writing", Empty), 0)>>)

\* the two sessions of StoredFile as deleteSession leaves them, when an
\* earlier run has deleted a third session that followed them
DeletedFile ==
    LET sessions == loadSessionsFromCSV(StoredFile)
    IN FileOf(DeletedCsv(Append(sessions, Put(sessions[1], ID, Num(2))), 3))

\* the session store before the first call of a run
StoreInit ==
    /\ Fresh
    /\ file \in {NoFile, EmptyFile, LegacyFile, StoredFile, DeletedFile}
    /\ tz = 0
    /\ projectStore = ProjectStoreOf(ArrayFile(<<WritingProject>>))

storeVars == <<saves, edits, file, errorLog, lastResult, nEdits>>
clockVars == <<now, tz, ticks>>

-----------------------------------------------------------------------------
(* tray.js *)

\* startSession without the test of isSessionActive
startSessionRestarts(projectName) ==
    /\ lastEvent' = Event("startSession")
    /\ IF projectName = ""
       THEN UNCHANGED <<trackerVars, timerIntervalId, menuUpdatePending, started>>
       ELSE /\ currentProjectName' = projectName
            /\ isSessionActive' = TRUE
            /\ sessionStartTime' = now
            /\ timerIntervalId' = TRUE
            /\ menuUpdatePending' = TRUE
            /\ started' = started + 1

\* startSession(projectName)
startSession(projectName) ==
    /\ lastEvent' = Event("startSession")
    /\ IF isSessionActive \/ projectName = ""
       THEN UNCHANGED <<trackerVars, timerIntervalId, menuUpdatePending, started>>
       ELSE /\ currentProjectName' = projectName
            /\ isSessionActive' = TRUE
            /\ sessionStartTime' = now
            /\ timerIntervalId' = TRUE
            /\ menuUpdatePending' = TRUE
            /\ started' = started + 1

\* endSession that resets isSessionActive alone
endSessionKeepsFields(notes) ==
    /\ lastEvent' = Event("endSession")
    /\ IF ~isSessionActive
       THEN UNCHANGED <<trackerVars, timerIntervalId, menuUpdatePending, saves>>
       ELSE /\ timerIntervalId' = FALSE
            /\ isSessionActive' = FALSE
            /\ UNCHANGED <<currentProjectName, sessionStartTime>>
            /\ menuUpdatePending' = TRUE
            /\ saves' = saves \cup
                  {SaveCallOf(started, SessionDataOf(sessionStartTime, now,
                                                     currentProjectName, notes))}

\* endSession without its early return
endSessionUnguarded(notes) ==
    /\ lastEvent' = Event("endSession")
    /\ timerIntervalId' = FALSE
    /\ isSessionActive' = FALSE
    /\ currentProjectName' = NullName
    /\ sessionStartTime' = NullTime
    /\ menuUpdatePending' = TRUE
    /\ saves' = saves \cup
          {SaveCallOf(started, SessionDataOf(sessionStartTime, now,
                                             currentProjectName, notes))}

\* endSession(notes), up to its await of saveSession
endSession(notes) ==
    /\ lastEvent' = Event("endSession")
    /\ IF ~isSessionActive
       THEN UNCHANGED <<trackerVars, timerIntervalId, menuUpdatePending, saves>>
       ELSE /\ timerIntervalId' = FALSE
            /\ isSessionActive' = FALSE
            /\ currentProjectName' = NullName
            /\ sessionStartTime' = NullTime
            /\ menuUpdatePending' = TRUE
            /\ saves' = saves \cup
                  {SaveCallOf(started, SessionDataOf(sessionStartTime, now,
                                                     currentProjectName, notes))}

\* the click handler of a project of the Start Session submenu
StartClicked(projectName) ==
    /\ menu = "start"
    /\ startSession(projectName)
    /\ UNCHANGED <<menu, dialogs, storeVars, clockVars>>
    /\ UNCHANGED <<acked, projectStore, stats>>

\* a click on a project of the Start Session submenu
StartClick(projectName) ==
    /\ isSessionActive \/ projectName = "" \/ started < MaxSessions
    /\ StartClicked(projectName)

\* a click on a project, in a run of up to MaxRestarts sessions
StartClickAgain(projectName) ==
    /\ isSessionActive \/ projectName = "" \/ started < MaxRestarts
    /\ StartClicked(projectName)

\* the click handler of Stop Session, up to its await of showNotesDialog
StopClicked ==
    /\ menu = "stop"
    /\ dialogs' = dialogs (+) SetToBag({IF isSessionActive THEN started ELSE 0})
    /\ lastEvent' = Event("stopClick")
    /\ UNCHANGED <<trackerVars, timerIntervalId, menu, menuUpdatePending, storeVars,
                   clockVars, started>>
    /\ UNCHANGED <<acked, projectStore, stats>>

\* a click on Stop Session
StopClick ==
    /\ BagCardinality(dialogs) < MaxDialogs
    /\ StopClicked

\* a click on Stop Session while up to MaxPending notes dialogs are open
StopClickAgain ==
    /\ BagCardinality(dialogs) < MaxPending
    /\ StopClicked

\* a click on Stop Session when showNotesDialog rejects: endSession("")
StopClickDialogError ==
    /\ menu = "stop"
    /\ endSession(Empty)
    /\ UNCHANGED <<menu, dialogs, edits, file, errorLog, lastResult, nEdits, clockVars,
                   started>>
    /\ UNCHANGED <<acked, projectStore, stats>>

\* the notes window answers with the notes (Save): endSession(notes)
DialogSubmit(serial, notes) ==
    /\ BagIn(serial, dialogs)
    /\ dialogs' = dialogs (-) SetToBag({serial})
    /\ endSession(notes)
    /\ UNCHANGED <<menu, edits, file, errorLog, lastResult, nEdits, clockVars, started>>
    /\ UNCHANGED <<acked, projectStore, stats>>

\* a handler that ends the session with empty notes when showNotesDialog
\* resolved null
NotesNullEndsSession(op, serial) ==
    /\ BagIn(serial, dialogs)
    /\ dialogs' = dialogs (-) SetToBag({serial})
    /\ lastEvent' = Event(op)
    /\ IF ~isSessionActive
       THEN UNCHANGED <<trackerVars, timerIntervalId, menuUpdatePending, saves>>
       ELSE /\ timerIntervalId' = FALSE
            /\ isSessionActive' = FALSE
            /\ currentProjectName' = NullName
            /\ sessionStartTime' = NullTime
            /\ menuUpdatePending' = TRUE
            /\ saves' = saves \cup
                  {SaveCallOf(started, SessionDataOf(sessionStartTime, now,
                                                     currentProjectName, Empty))}
    /\ UNCHANGED <<menu, edits, file, errorLog, lastResult, nEdits, clockVars, started>>
    /\ UNCHANGED <<acked, projectStore, stats>>

\* the handler of Stop Session when showNotesDialog resolved null
NotesNull(op, serial) ==
    /\ BagIn(serial, dialogs)
    /\ dialogs' = dialogs (-) SetToBag({serial})
    /\ lastEvent' = Event(op)
    /\ UNCHANGED <<trackerVars, timerIntervalId, menu, menuUpdatePending, storeVars,
                   clockVars, started>>
    /\ UNCHANGED <<acked, projectStore, stats>>

\* the notes window answers null (Cancel, Esc)
DialogCancel(serial) == NotesNull("dialogCancel", serial)

\* the notes window is closed without an answer
DialogClosed(serial) == NotesNull("dialogClosed", serial)

\* the interval of startSession fires: updateTrayMenu()
TimerFires ==
    /\ timerIntervalId
    /\ menuUpdatePending' = TRUE
    /\ UNCHANGED lastEvent
    /\ UNCHANGED <<trackerVars, timerIntervalId, menu, dialogs, storeVars, clockVars, started>>
    /\ UNCHANGED <<acked, projectStore, stats>>

\* a refresh that takes the moment of the refresh for the start of the session
updateTrayMenuRestartsClock ==
    /\ menuUpdatePending
    /\ menuUpdatePending' = FALSE
    /\ menu' = IF isSessionActive THEN "stop" ELSE "start"
    /\ sessionStartTime' = IF isSessionActive THEN now ELSE sessionStartTime
    /\ UNCHANGED lastEvent
    /\ UNCHANGED <<isSessionActive, currentProjectName, timerIntervalId, dialogs,
                   storeVars, clockVars, started, acked, projectStore, stats>>

\* updateTrayMenu: loadProjects, which may migrate projects.json, and then
\* the menu, built from the tracker state at the return of loadProjects
updateTrayMenu ==
    /\ menuUpdatePending
    /\ menuUpdatePending' = FALSE
    /\ menu' = IF isSessionActive THEN "stop" ELSE "start"
    /\ UNCHANGED lastEvent
    /\ LET r == loadAndMigrateProjects(projectStore.file, projectStore.generated)
       IN projectStore' = [projectStore EXCEPT !.file = r.file,
                                               !.generated = r.generated]
    /\ UNCHANGED <<trackerVars, timerIntervalId, dialogs, storeVars, clockVars, started>>
    /\ UNCHANGED <<acked, stats>>

\* time passes
Tick(ms) ==
    /\ ticks < MaxTicks
    /\ now' = now + ms
    /\ ticks' = ticks + 1
    /\ UNCHANGED lastEvent
    /\ UNCHANGED <<trackerVars, timerIntervalId, menu, menuUpdatePending, dialogs,
                   storeVars, tz, started>>
    /\ UNCHANGED <<acked, projectStore, stats>>

-----------------------------------------------------------------------------
(* src/main/data-manager.js *)

\* what saveSession learns of the file f before it writes: fileNeedsHeader
\* (ENOENT or size 0) and, otherwise, whether the last byte is a newline
Stat(s, f) ==
    [s EXCEPT !.pc = "write",
              !.fileNeedsHeader = ~f.exists \/ IsEmptyFile(f),
              !.fileNeedsNewlinePrefix =
                  f.exists /\ ~IsEmptyFile(f) /\ ~EndsWithNewline(f)]

\* saveSession: fs.stat and the read of the last byte
SaveStat(s) ==
    /\ s \in saves
    /\ s.pc = "stat"
    /\ saves' = (saves \ {s}) \cup {Stat(s, file)}
    /\ UNCHANGED lastEvent
    /\ UNCHANGED <<trackerVars, timerIntervalId, menu, menuUpdatePending, dialogs, edits,
                   file, errorLog, lastResult, nEdits, clockVars, started>>
    /\ UNCHANGED <<acked, projectStore, stats>>

\* the file after the write of saveSession
SavedFile(f, s, zone) ==
    IF s.fileNeedsHeader
    THEN FileOf(<<HeaderLine(HEADERS, LF), CsvFragment(s.data, zone)>>)
    ELSE AppendText(f, s.fileNeedsNewlinePrefix, CsvFragment(s.data, zone))

\* saveSession: fs.writeFile or fs.appendFile succeeds; endSession logs the success
SaveWrite(s) ==
    /\ s \in saves
    /\ s.pc = "write"
    /\ file' = SavedFile(file, s, tz)
    /\ saves' = saves \ {s}
    /\ lastResult' = Result("saveSession", TRUE, "", s.serial)
    /\ UNCHANGED lastEvent
    /\ UNCHANGED <<trackerVars, timerIntervalId, menu, menuUpdatePending, dialogs, edits,
                   errorLog, nEdits, clockVars, started>>
    /\ UNCHANGED <<acked, projectStore, stats>>

\* a failed save that puts the tracker back into the session it could not store
SaveFailRollsBack(s) ==
    /\ s \in saves
    /\ saves' = saves \ {s}
    /\ errorLog' = errorLog \cup {s.serial}
    /\ lastResult' = Result("saveSession", FALSE, "write failed", s.serial)
    /\ isSessionActive' = TRUE
    /\ currentProjectName' = s.data.projectName
    /\ sessionStartTime' = s.data.startTime
    /\ UNCHANGED lastEvent
    /\ UNCHANGED <<timerIntervalId, menu, menuUpdatePending, dialogs, edits,
                   file, nEdits, clockVars, started>>
    /\ UNCHANGED <<acked, projectStore, stats>>

\* saveSession throws (fs.stat fails other than ENOENT, or the write fails):
\* endSession catches the error and logs it
SaveFail(s) ==
    /\ s \in saves
    /\ saves' = saves \ {s}
    /\ errorLog' = errorLog \cup {s.serial}
    /\ lastResult' = Result("saveSession", FALSE, "write failed", s.serial)
    /\ UNCHANGED lastEvent
    /\ UNCHANGED <<trackerVars, timerIntervalId, menu, menuUpdatePending, dialogs, edits,
                   file, nEdits, clockVars, started>>
    /\ UNCHANGED <<acked, projectStore, stats>>

Edit(kind, id, field, value, out) ==
    [kind |-> kind, id |-> id, field |-> field, value |-> value, out |-> out]

\* updateSessionInCSV(id, field, value), up to its await of fs.writeFile
updateSessionInCSV(id, field, value) ==
    /\ nEdits' = nEdits + 1
    /\ UNCHANGED lastEvent
    /\ LET sessions == loadSessionsFromCSV(file)
           sessionIndex == FindIndex(sessions, id)
       IN IF sessionIndex = 0
          THEN /\ lastResult' = Result("updateSessionInCSV", FALSE, "not found", id)
               /\ UNCHANGED edits
          ELSE /\ edits' = edits \cup
                     {Edit("updateSessionInCSV", id, field, value,
                           UpdatedCsv(sessions, sessionIndex, field, value))}
               /\ UNCHANGED lastResult
    /\ UNCHANGED <<trackerVars, timerIntervalId, menu, menuUpdatePending, dialogs, saves,
                   file, errorLog, clockVars, started>>
    /\ UNCHANGED <<acked, projectStore, stats>>

\* a call of updateSessionInCSV by the dashboard
UpdateCall(id, field, value) ==
    /\ nEdits < MaxEdits
    /\ updateSessionInCSV(id, field, value)

\* a call of updateSessionInCSV while others are in flight
RacingUpdate(id, field, value) ==
    /\ nEdits < MaxRacing
    /\ updateSessionInCSV(id, field, value)

\* deleteSession(id), up to its await of fs.writeFile
DeleteCall(id) ==
    /\ nEdits < MaxEdits
    /\ nEdits' = nEdits + 1
    /\ UNCHANGED lastEvent
    /\ LET sessions == loadSessionsFromCSV(file)
           sessionIndex == FindIndex(sessions, id)
       IN IF sessionIndex = 0
          THEN /\ lastResult' = Result("deleteSession", FALSE, "Failed to delete session", id)
               /\ UNCHANGED edits
          ELSE /\ edits' = edits \cup
                     {Edit("deleteSession", id, Empty, Empty, DeletedCsv(sessions, sessionIndex))}
               /\ UNCHANGED lastResult
    /\ UNCHANGED <<trackerVars, timerIntervalId, menu, menuUpdatePending, dialogs, saves,
                   file, errorLog, clockVars, started>>
    /\ UNCHANGED <<acked, projectStore, stats>>

\* a write that fails when the file is no longer the one the call loaded
EditWriteChecked(e) ==
    /\ e \in edits
    /\ edits' = edits \ {e}
    /\ LET sessions == loadSessionsFromCSV(file)
           sessionIndex == FindIndex(sessions, e.id)
           fresh == /\ sessionIndex # 0
                    /\ e.out = IF e.kind = "deleteSession"
                               THEN DeletedCsv(sessions, sessionIndex)
                               ELSE UpdatedCsv(sessions, sessionIndex, e.field, e.value)
       IN IF fresh
          THEN /\ file' = FileOf(e.out)
               /\ lastResult' = Result(e.kind, TRUE, "", e.id)
               /\ acked' = acked \cup {[kind |-> e.kind, id |-> e.id, field |-> e.field,
                                         value |-> e.value]}
          ELSE /\ lastResult' = Result(e.kind, FALSE, "conflict", e.id)
               /\ UNCHANGED <<file, acked>>
    /\ UNCHANGED lastEvent
    /\ UNCHANGED <<trackerVars, timerIntervalId, menu, menuUpdatePending, dialogs, saves,
                   errorLog, nEdits, clockVars, started>>
    /\ UNCHANGED <<projectStore, stats>>

\* fs.writeFile of updateSessionInCSV or deleteSession succeeds
EditWrite(e) ==
    /\ e \in edits
    /\ file' = FileOf(e.out)
    /\ edits' = edits \ {e}
    /\ lastResult' = Result(e.kind, TRUE, "", e.id)
    /\ acked' = acked \cup {[kind |-> e.kind, id |-> e.id, field |-> e.field,
                              value |-> e.value]}
    /\ UNCHANGED lastEvent
    /\ UNCHANGED <<trackerVars, timerIntervalId, menu, menuUpdatePending, dialogs, saves,
                   errorLog, nEdits, clockVars, started>>
    /\ UNCHANGED <<projectStore, stats>>

\* what fs.writeFile(path, text) can leave when the process dies during it:
\* the file f as it was, the file truncated on open, a part of the text, or
\* all of it
PartlyWritten(f, text) ==
    {f, EmptyFile, FileOf(text)} \cup {FileOf(SubSeq(text, 1, n)) : n \in 1..Len(text)}

\* the process dies during the fs.writeFile of updateSessionInCSV or
\* deleteSession, and every call in flight with it
CrashDuringWrite(e) ==
    /\ e \in edits
    /\ file' \in PartlyWritten(file, e.out)
    /\ edits' = {}
    /\ saves' = {}
    /\ lastResult' = Result("crash", FALSE, "crash", e.id)
    /\ UNCHANGED lastEvent
    /\ UNCHANGED <<trackerVars, timerIntervalId, menu, menuUpdatePending, dialogs,
                   errorLog, nEdits, clockVars, started, acked, projectStore, stats>>

-----------------------------------------------------------------------------
(* src/main/data-manager.js: the project store *)

sessionVarsButStats ==
    <<isSessionActive, currentProjectName, sessionStartTime, timerIntervalId,
      menu, menuUpdatePending, dialogs, saves, edits, file, now, tz, started,
      nEdits, ticks, errorLog, lastEvent, lastResult, acked>>
sessionVars == <<sessionVarsButStats, stats>>

\* the project store after a call that settles without a write of its own:
\* r is what its loadAndMigrateProjects did, if it came to that
Settled(r, result) ==
    [projectStore EXCEPT !.file = r.file, !.generated = r.generated,
                         !.nCalls = @ + 1, !.result = result]
\* the project store after a call has loaded and computed the list out
Loaded(r, generated, call) ==
    [projectStore EXCEPT !.file = r.file, !.generated = generated,
                         !.nCalls = @ + 1, !.calls = @ \cup {call}]
NotLoaded == [file |-> projectStore.file, generated |-> projectStore.generated]
\* the serial of the call that arrives
Serial == projectStore.nCalls + 1

\* the load-projects handler: loadAndMigrateProjects()
loadProjects ==
    /\ projectStore.nCalls < MaxProjectCalls
    /\ LET r == loadAndMigrateProjects(projectStore.file, projectStore.generated)
       IN projectStore' =
              Settled(r, ProjectResult(Serial, "loadProjects", TRUE, "", NoId, <<>>, NoColor,
                                       r.projects, r.wrote))
    /\ UNCHANGED sessionVars

\* addProject({name, color}), up to its await of fs.writeFile
addProject(name, color) ==
    /\ projectStore.nCalls < MaxProjectCalls
    /\ IF name = <<>> \/ Len(trim(name)) = 0
       THEN projectStore' =
                Settled(NotLoaded,
                        ProjectResult(Serial, "addProject", FALSE, "Invalid project data provided",
                                      NoId, name, color, <<>>, FALSE))
       ELSE LET trimmedName == trim(name)
                r == loadAndMigrateProjects(projectStore.file, projectStore.generated)
                some == SomeNamed(r.projects, trimmedName)
                newProject == Project(GeneratedId(r.generated), trimmedName,
                                      IF color = NoColor THEN DefaultColor ELSE color)
            IN IF some = "TypeError"
               THEN projectStore' =
                        Settled(r, ProjectResult(Serial, "addProject", FALSE, "TypeError", NoId,
                                                 name, color, r.projects, r.wrote))
               ELSE IF some = "true"
               THEN projectStore' =
                        Settled(r, ProjectResult(Serial, "addProject", FALSE, "already exists", NoId,
                                                 name, color, r.projects, r.wrote))
               ELSE projectStore' =
                        Loaded(r, r.generated + 1,
                               ProjectCall(Serial, "addProject", newProject.id, name, color,
                                           Append(r.projects, newProject)))
    /\ UNCHANGED sessionVars

\* updateProjectColor(id, color), up to its await of fs.writeFile
updateProjectColor(id, color) ==
    /\ projectStore.nCalls < MaxProjectCalls
    /\ IF id = NoId \/ color = <<>>
       THEN projectStore' =
                Settled(NotLoaded,
                        ProjectResult(Serial, "updateProjectColor", FALSE,
                                      "Project ID and color are required",
                                      id, <<>>, color, <<>>, FALSE))
       ELSE IF ~IsHexColor(color)
       THEN projectStore' =
                Settled(NotLoaded,
                        ProjectResult(Serial, "updateProjectColor", FALSE, "Invalid color format",
                                      id, <<>>, color, <<>>, FALSE))
       ELSE LET r == loadAndMigrateProjects(projectStore.file, projectStore.generated)
                projectIndex == FindProjectIndex(r.projects, id)
            IN IF projectIndex = 0
               THEN projectStore' =
                        Settled(r, ProjectResult(Serial, "updateProjectColor", FALSE, "not found",
                                                 id, <<>>, color, r.projects, r.wrote))
               ELSE projectStore' =
                        Loaded(r, r.generated,
                               ProjectCall(Serial, "updateProjectColor", id, <<>>, color,
                                           [r.projects EXCEPT ![projectIndex].color = color]))
    /\ UNCHANGED sessionVars

\* deleteProject(id), up to its await of fs.writeFile
deleteProject(id) ==
    /\ projectStore.nCalls < MaxProjectCalls
    /\ IF id = NoId
       THEN projectStore' =
                Settled(NotLoaded,
                        ProjectResult(Serial, "deleteProject", FALSE, "No project ID provided",
                                      id, <<>>, NoColor, <<>>, FALSE))
       ELSE LET r == loadAndMigrateProjects(projectStore.file, projectStore.generated)
                projects == WithoutProject(r.projects, id)
            IN IF Len(projects) = Len(r.projects)
               THEN projectStore' =
                        Settled(r, ProjectResult(Serial, "deleteProject", FALSE, "not found",
                                                 id, <<>>, NoColor, r.projects, r.wrote))
               ELSE projectStore' =
                        Loaded(r, r.generated,
                               ProjectCall(Serial, "deleteProject", id, <<>>, NoColor, projects))
    /\ UNCHANGED sessionVars

\* fs.writeFile of addProject, updateProjectColor or deleteProject succeeds
ProjectWrite(c) ==
    /\ c \in projectStore.calls
    /\ projectStore' =
           [projectStore EXCEPT !.file = ArrayFile(c.out),
                                !.calls = @ \ {c},
                                !.result = ProjectResult(c.serial, c.op, TRUE, "", c.id, c.name,
                                                         c.color, c.out, TRUE)]
    /\ UNCHANGED sessionVars

-----------------------------------------------------------------------------

-----------------------------------------------------------------------------
(* src/main/ipc-handlers.js: the get-comparison-stats handler.  The day it *)
(* reads off the clock (new Date(), then setHours(0, 0, 0, 0)) is an input. *)
(* The handler keeps no state: a run of the model asks once.                *)

getComparisonStats(today) ==
    /\ ~stats.asked
    /\ stats' = [asked |-> TRUE, today |-> today,
                 reply |-> ComparisonStats(loadSessionsFromCSV(file), today)]
    /\ UNCHANGED <<sessionVarsButStats, projectStore>>

\* endSession calls saveSession with the data of a session that ran from
\* startTime to endTime
SaveCall(startTime, endTime, projectName, notes) ==
    /\ started < MaxSessions
    /\ started' = started + 1
    /\ saves' = saves \cup
          {SaveCallOf(started + 1, SessionDataOf(startTime, endTime, projectName, notes))}
    /\ UNCHANGED <<trackerVars, timerIntervalId, menu, menuUpdatePending, dialogs, edits,
                   file, errorLog, lastResult, lastEvent, nEdits, clockVars>>
    /\ UNCHANGED <<acked, projectStore, stats>>

-----------------------------------------------------------------------------

\* the tray application: the tracker, its menu and dialogs, and the saves
Next ==
    \/ \E p \in ProjectInputs : StartClick(p)
    \/ StopClick
    \/ StopClickDialogError
    \/ \E serial \in 0..MaxSessions, notes \in NotesInputs : DialogSubmit(serial, notes)
    \/ \E serial \in 0..MaxSessions : DialogCancel(serial)
    \/ \E serial \in 0..MaxSessions : DialogClosed(serial)
    \/ TimerFires
    \/ updateTrayMenu
    \/ \E ms \in ClockSteps : Tick(ms)
    \/ \E s \in saves : SaveStat(s)
    \/ \E s \in saves : SaveWrite(s)
    \/ \E s \in saves : SaveFail(s)

Spec == Init /\ [][Next]_vars

\* the session store under the calls of the tracker and of the dashboard
StoreNext ==
    \/ \E d \in SaveInputs : SaveCall(d[1], d[1] + d[2], "Writing", d[3])
    \/ \E s \in saves : SaveStat(s)
    \/ \E s \in saves : SaveWrite(s)
    \/ \E s \in saves : SaveFail(s)
    \/ \E id \in SessionIds, u \in UpdateInputs \cup FieldInputs :
          UpdateCall(id, u[1], u[2])
    \/ \E id \in SessionIds : DeleteCall(id)
    \/ \E e \in edits : EditWrite(e)
    \/ \E e \in edits : CrashDuringWrite(e)

StoreSpec == StoreInit /\ [][StoreNext]_vars

\* the session store when the dashboard starts its updates
RaceInit ==
    /\ Fresh
    /\ file = StoredFile
    /\ tz = 0
    /\ projectStore = ProjectStoreOf(ArrayFile(<<WritingProject>>))

\* updates of the dashboard that do not wait for one another
RaceNext ==
    \/ \E id \in SessionIds, u \in UpdateInputs : RacingUpdate(id, u[1], u[2])
    \/ \E e \in edits : EditWrite(e)

RaceSpec == RaceInit /\ [][RaceNext]_vars

\* the project store before the first call of a run
ProjectInit ==
    /\ Fresh
    /\ file = EmptyFile
    /\ tz = 0
    /\ projectStore \in {ProjectStoreOf(f) : f \in ProjectFiles}

\* the project store under the calls of the dashboard
ProjectNext ==
    \/ loadProjects
    \/ \E name \in NameInputs, color \in AddColorInputs : addProject(name, color)
    \/ \E id \in ProjectIds, color \in ColorInputs : updateProjectColor(id, color)
    \/ \E id \in ProjectIds : deleteProject(id)
    \/ \E c \in projectStore.calls : ProjectWrite(c)

ProjectSpec == ProjectInit /\ [][ProjectNext]_vars

\* the sessions file when the dashboard asks for the statistics
StatsInit ==
    /\ Fresh
    /\ file \in StatsFiles
    /\ tz = 0
    /\ projectStore = ProjectStoreOf(ArrayFile(<<WritingProject>>))

\* the dashboard asks for the comparison statistics
StatsNext == \E today \in TodayInputs : getComparisonStats(today)

StatsSpec == StatsInit /\ [][StatsNext]_vars

\* the tray application when Stop Session is clicked while notes dialogs
\* are open
DialogInit ==
    /\ Fresh
    /\ file = EmptyFile
    /\ tz = 0
    /\ projectStore = ProjectStoreOf(ArrayFile(<<WritingProject>>))

DialogNext ==
    \/ \E p \in ProjectInputs : StartClickAgain(p)
    \/ StopClickAgain
    \/ \E serial \in 0..MaxRestarts, notes \in NotesInputs : DialogSubmit(serial, notes)
    \/ \E serial \in 0..MaxRestarts : DialogCancel(serial)
    \/ updateTrayMenu
    \/ \E s \in saves : SaveStat(s)
    \/ \E s \in saves : SaveWrite(s)

DialogSpec == DialogInit /\ [][DialogNext]_vars

-----------------------------------------------------------------------------
(* The tracker: properties of Spec *)

\* a handler of the tracker ran in this step
TrackerEvent(op, wasActive) ==
    /\ lastEvent' # lastEvent
    /\ lastEvent' = [op |-> op, wasActive |-> wasActive]

\* the saves handed to saveSession in this step
HandedOver == {s \in saves' : \A t \in saves : t.serial # s.serial}

\* C1: in every reachable state of the tracker, a stop that waits for its
\* save included, currentProjectName and sessionStartTime are both set if
\* and only if isSessionActive is true.
C1_FieldsSetIffActive ==
    isSessionActive <=> (currentProjectName # NullName /\ sessionStartTime # NullTime)

\* an idle tracker whose stop still waits for saveSession
C1_IdleWhileSaving ==
    /\ ~isSessionActive
    /\ currentProjectName = NullName
    /\ \E s \in saves : s.pc = "write"

C3_StartWhileActiveIsNoOp ==
    [][TrackerEvent("startSession", TRUE) =>
          UNCHANGED <<trackerVars, timerIntervalId, started, saves, dialogs, errorLog>>]_vars

\* startSession has been called on an active tracker
C3_StartedWhileActive ==
    /\ lastEvent = [op |-> "startSession", wasActive |-> TRUE]
    /\ isSessionActive

\* C4: endSession on an idle tracker hands nothing to saveSession, leaves
\* the tracker and the file as they are and logs no error.
C4_StopWhileIdleIsNoOp ==
    [][TrackerEvent("endSession", FALSE) =>
          UNCHANGED <<trackerVars, timerIntervalId, saves, file, errorLog>>]_vars

\* endSession has been called on an idle tracker
C4_StoppedWhileIdle ==
    /\ lastEvent = [op |-> "endSession", wasActive |-> FALSE]
    /\ ~isSessionActive

-----------------------------------------------------------------------------
(* The session store: properties of StoreSpec *)

\* k is the integer nearest to ms / 60000, halves rounded up
IsRoundedMinutes(k, ms) ==
    /\ MsPerMinute * (2 * k - 1) <= 2 * ms
    /\ 2 * ms < MsPerMinute * (2 * k + 1)

\* the session a load is to return for the session data handed to saveSession
StoredFieldsOf(sessionData, zone) ==
    <<<<DATE, IsoDate(sessionData.startTime)>>,
      <<START_TIME, ToTimeString(sessionData.startTime, zone)>>,
      <<END_TIME, ToTimeString(sessionData.endTime, zone)>>,
      <<DURATION_MINUTES, Num(sessionData.durationMinutes)>>,
      <<PROJECT, Str(sessionData.projectName)>>,
      <<NOTES, sessionData.notes>>>>

SameStoredFields(a, b) ==
    \A i \in 1..Len(HEADERS) : Get(a, HEADERS[i]) = Get(b, HEADERS[i])

\* after is before with one session more, the one of sessionData
OneSessionMore(before, after, sessionData, zone) ==
    /\ Len(after) = Len(before) + 1
    /\ \A i \in 1..Len(before) : after[i] = before[i]
    /\ SameStoredFields(after[Len(after)], StoredFieldsOf(sessionData, zone))
    /\ \A i \in 1..Len(before) : Get(after[Len(after)], ID) # Get(before[i], ID)

\* the save s writes in this step, no other call of the store is in flight
\* and the file is as s found it
WritesAlone(s) ==
    /\ saves = {s}
    /\ saves' = {}
    /\ edits = {}
    /\ s = Stat(s, file)
    /\ lastResult' = Result("saveSession", TRUE, "", s.serial)

\* C6: a session started at t0 for project p and stopped at t1 with notes n,
\* once saved, is exactly one more row of the store, with project p, notes n
\* and duration_minutes the rounded (t1 - t0) / 60000.
C6_StopAddsOneRow ==
    [][\A s \in saves :
          WritesAlone(s) =>
              LET before == loadSessionsFromCSV(file)
                  after == loadSessionsFromCSV(file')
              IN /\ Len(after) = Len(before) + 1
                 /\ \A i \in 1..Len(before) : after[i] = before[i]
                 /\ Get(after[Len(after)], PROJECT) = Str(s.data.projectName)
                 /\ Get(after[Len(after)], NOTES) = s.data.notes
                 /\ IsRoundedMinutes(ParseIntOr0(Get(after[Len(after)], DURATION_MINUTES)),
                                     s.data.endTime - s.data.startTime)]_vars

\* the delete e writes in this step what it made of the file as it is now
DeletesSerially(e) ==
    /\ e.kind = "deleteSession"
    /\ e \in edits
    /\ edits' = edits \ {e}
    /\ file' = FileOf(e.out)
    /\ FindIndex(loadSessionsFromCSV(file), e.id) # 0
    /\ e.out = DeletedCsv(loadSessionsFromCSV(file),
                          FindIndex(loadSessionsFromCSV(file), e.id))

\* C7: the ids of one load are pairwise distinct, and a session that is not
\* the one deleted is returned by the next load with the id it had.
C7_IdsAreStable ==
    [][\A e \in edits :
          DeletesSerially(e) =>
              LET before == loadSessionsFromCSV(file)
                  after == loadSessionsFromCSV(file')
              IN /\ \A i, j \in 1..Len(after) :
                        Get(after[i], ID) = Get(after[j], ID) => i = j
                 /\ \A i \in 1..Len(before) :
                        Get(before[i], ID) # Num(e.id) =>
                            \E j \in 1..Len(after) : after[j] = before[i]]_vars

\* C8: whatever the file, load, append(s), load returns the sessions of the
\* first load unchanged and in order, and one more, equal to s in its stored
\* fields, with an id that no session of the first load has.
C8_LoadAppendLoad ==
    \A d \in SaveInputs :
        LET sessionData == SessionDataOf(d[1], d[1] + d[2], "Writing", d[3])
            s == Stat(SaveCallOf(0, sessionData), file)
        IN OneSessionMore(loadSessionsFromCSV(file),
                          loadSessionsFromCSV(SavedFile(file, s, tz)),
                          sessionData, tz)

\* C9: an update or a delete for an id that no stored session has fails
\* with a failure that tells the caller the session was not found, and
\* leaves the file as it is.
C9_UnknownIdIsNotFound ==
    [][(nEdits' = nEdits + 1 /\ edits' = edits) =>
          /\ ~lastResult'.ok
          /\ lastResult'.error = "not found"
          /\ file' = file]_vars

\* the minutes from start to end, the end taken on the next day when it is
\* earlier than the start
MinutesApartMs(start, end) ==
    LET a == SecondsOfDay(TimeParts(start))
        b == SecondsOfDay(TimeParts(end))
    IN IF b < a THEN (b + 24 * 3600 - a) * 1000 ELSE (b - a) * 1000

HasBothTimes(session) ==
    /\ Len(TimeParts(Get(session, START_TIME))) >= 2
    /\ Len(TimeParts(Get(session, END_TIME))) >= 2

DurationMatchesTimes(session) ==
    /\ Len(Get(session, DURATION_MINUTES)) = 1
    /\ Get(session, DURATION_MINUTES)[1].k = "num"
    /\ IsRoundedMinutes(ParseIntOr0(Get(session, DURATION_MINUTES)),
                        MinutesApartMs(Get(session, START_TIME), Get(session, END_TIME)))

WritesSerially(e) ==
    LET sessions == loadSessionsFromCSV(file)
        sessionIndex == FindIndex(sessions, e.id)
    IN /\ e \in edits
       /\ edits' = edits \ {e}
       /\ file' = FileOf(e.out)
       /\ sessionIndex # 0
       /\ e.out = IF e.kind = "deleteSession"
                  THEN DeletedCsv(sessions, sessionIndex)
                  ELSE UpdatedCsv(sessions, sessionIndex, e.field, e.value)

KeySet(o) == {Keys(o)[j] : j \in 1..Len(Keys(o))}
\* the sessions a and b are equal in every field but those of the set but
SameBut(a, b, but) ==
    \A key \in (KeySet(a) \cup KeySet(b)) \ but : Get(a, key) = Get(b, key)

\* C11: the sessions loaded after an update or a delete are those loaded
\* before it, in their order and equal in every field, with the ids given by
\* position, but that an update changes the field it names in the session it
\* names (and duration_minutes, when the field is start_time or end_time) and
\* a delete leaves out the session it names and nothing else.
C11_EditsChangeOnlyTheirTarget ==
    [][\A e \in edits :
          WritesSerially(e) =>
              LET before == loadSessionsFromCSV(file)
                  after == loadSessionsFromCSV(file')
                  k == FindIndex(before, e.id)
              IN /\ \A i \in 1..Len(after) : Get(after[i], ID) = Num(i - 1)
                 /\ IF e.kind = "deleteSession"
                    THEN /\ Len(after) = Len(before) - 1
                         /\ \A i \in 1..Len(after) :
                                SameBut(after[i], IF i < k THEN before[i] ELSE before[i + 1],
                                        IF i < k THEN {} ELSE {ID})
                    ELSE /\ Len(after) = Len(before)
                         /\ Get(after[k], e.field) = e.value
                         /\ \A i \in 1..Len(after) :
                                SameBut(after[i], before[i],
                                        IF i # k THEN {}
                                        ELSE IF e.field \in {START_TIME, END_TIME}
                                        THEN {e.field, DURATION_MINUTES}
                                        ELSE {e.field})]_vars

-----------------------------------------------------------------------------
(* The project store: properties of ProjectSpec *)

\* the projects the array of projects.json holds
StoredProjects(f) == IF f.kind = "array" THEN f.entries ELSE <<>>

\* a stored project has the name, trimmed and compared without regard to case
NameTaken(f, name) ==
    \E i \in 1..Len(StoredProjects(f)) :
        /\ StoredProjects(f)[i].isObject
        /\ StoredProjects(f)[i].hasName
        /\ toLowerCase(StoredProjects(f)[i].name) = toLowerCase(trim(name))

\* C12: addProject for a name that a stored project has, compared trimmed and
\* without regard to case, fails with the error that the project already
\* exists, and projects.json holds after the call what it held before.
C12_DuplicateRejectedBeforeWrite ==
    [][\A name \in NameInputs, color \in AddColorInputs :
          (addProject(name, color) /\ Len(trim(name)) > 0
                                   /\ NameTaken(projectStore.file, name)) =>
              /\ projectStore'.result.serial = projectStore'.nCalls
              /\ ~projectStore'.result.ok
              /\ projectStore'.result.error = "already exists"
              /\ projectStore'.calls = projectStore.calls
              /\ projectStore'.file = projectStore.file]_vars

\* a "#" and six hexadecimal digits
HexColorPattern(color) ==
    /\ DOMAIN color = 1..7
    /\ color[1] = "#"
    /\ Tail(color) \in [1..6 -> HexDigits]
ValidationErrors ==
    {"Invalid project data provided", "Project ID and color are required",
     "Invalid color format"}

\* C13: addProject with an empty name or one of white space alone, and
\* updateProjectColor with a colour that is not "#" and six hexadecimal
\* digits, fail with a validation error and leave projects.json as it is;
\* updateProjectColor with a colour of that form does not fail with a
\* validation error.
C13_MalformedInputRejected ==
    [][/\ \A name \in NameInputs, color \in AddColorInputs :
             (addProject(name, color) /\ \A i \in 1..Len(name) : name[i] = " ") =>
                 /\ projectStore'.result.serial = projectStore'.nCalls
                 /\ ~projectStore'.result.ok
                 /\ projectStore'.result.error \in ValidationErrors
                 /\ projectStore'.calls = projectStore.calls
                 /\ projectStore'.file = projectStore.file
       /\ \A id \in ProjectIds, color \in ColorInputs :
             updateProjectColor(id, color) =>
                 IF HexColorPattern(color)
                 THEN \/ \E c \in projectStore'.calls \ projectStore.calls : c.color = color
                      \/ /\ projectStore'.calls = projectStore.calls
                         /\ projectStore'.result.serial = projectStore'.nCalls
                         /\ projectStore'.result.error \notin ValidationErrors
                 ELSE /\ projectStore'.result.serial = projectStore'.nCalls
                      /\ ~projectStore'.result.ok
                      /\ projectStore'.result.error \in ValidationErrors
                      /\ projectStore'.calls = projectStore.calls
                      /\ projectStore'.file = projectStore.file]_vars

\* updateProjectColor has rejected a colour of seven hexadecimal digits after
\* the "#", on a projects.json that a load would migrate
C13_ColorRejected ==
    /\ projectStore.result.op = "updateProjectColor"
    /\ projectStore.result.error = "Invalid color format"
    /\ Len(projectStore.result.color) = 8
    /\ loadAndMigrateProjects(projectStore.file, 0).wrote

\* the list out is the list loaded but for the project at index k, which is
\* left out (color = NoColor) or has the colour color
OnlyProjectChanged(loaded, out, k, color) ==
    IF color = NoColor
    THEN /\ Len(out) = Len(loaded) - 1
         /\ \A i \in 1..Len(out) : out[i] = IF i < k THEN loaded[i] ELSE loaded[i + 1]
    ELSE /\ Len(out) = Len(loaded)
         /\ \A i \in 1..Len(out) :
                IF i = k
                THEN /\ out[i].color = color
                     /\ out[i].id = loaded[i].id
                     /\ out[i].name = loaded[i].name
                     /\ out[i].hasName = loaded[i].hasName
                ELSE out[i] = loaded[i]

\* what a call for the project id does, when loaded is the list its load
\* returns: it fails with "not found" and queues no write when no project has
\* the id, and otherwise queues the list with that one project changed
TargetsOnly(loaded, id, color) ==
    LET matching == {i \in 1..Len(loaded) : loaded[i].id = id}
    IN IF matching = {}
       THEN /\ projectStore'.calls = projectStore.calls
            /\ projectStore'.result.serial = projectStore'.nCalls
            /\ ~projectStore'.result.ok
            /\ projectStore'.result.error = "not found"
            /\ StoredProjects(projectStore'.file) = loaded
       ELSE /\ Cardinality(matching) = 1
            /\ \E c \in projectStore'.calls \ projectStore.calls :
                   \A k \in matching : OnlyProjectChanged(loaded, c.out, k, color)

WellFormed(project) == project.isObject /\ project.id # NoId /\ project.hasName

\* C15: the list a load returns holds only objects that have an id that is
\* not null and a name that is a string.
C15_LoadedProjectsWellFormed ==
    projectStore.result.op = "loadProjects" =>
        \A i \in 1..Len(projectStore.result.projects) :
            WellFormed(projectStore.result.projects[i])

\* C16: a load that follows a load, the file being as the first left it,
\* writes nothing.
C16_SecondLoadWritesNothing ==
    [][(loadProjects /\ projectStore.result.op = "loadProjects"
                     /\ projectStore.calls = {}) =>
           ~projectStore'.result.wrote]_vars

\* C17: a load of a projects.json that is not JSON, or is JSON but no array,
\* returns the empty list and leaves the file holding the empty array.
C17_CorruptFileReset ==
    [][(loadProjects /\ projectStore.file.kind \in {"unparseable", "not an array"}) =>
           /\ projectStore'.result.ok
           /\ projectStore'.result.projects = <<>>
           /\ projectStore'.file = ArrayFile(<<>>)]_vars

-----------------------------------------------------------------------------
(* The session store under a crash: a property of StoreSpec *)

\* C18: when the process dies during the write of an update or a delete, the
\* file holds all of its old content or all of its new content.
C18_RewriteIsAtomic ==
    [][\A e \in edits :
          CrashDuringWrite(e) => file' \in {file, FileOf(e.out)}]_vars

-----------------------------------------------------------------------------
(* Updates that race: properties of RaceSpec *)

\* the update a was acknowledged, no other acknowledged call was for its
\* session, and the stored session does not have the value a wrote
Lost(a) ==
    LET sessions == loadSessionsFromCSV(file)
        k == FindIndex(sessions, a.id)
    IN /\ a.kind = "updateSessionInCSV"
       /\ \A b \in acked \ {a} : b.kind = "updateSessionInCSV" /\ b.id # a.id
       /\ k # 0
       /\ Get(sessions[k], a.field) # a.value

\* C19: nothing serializes the calls.  An update that loaded before another
\* call wrote still writes the text it computed from its own load and
\* returns true, whatever has been written since, so that the file reflects
\* the later writer alone.
C19_LaterWriterWins ==
    [][\A e \in edits :
          (edits' = edits \ {e} /\ lastResult'.op = e.kind /\ lastResult'.id = e.id) =>
              /\ lastResult'.ok
              /\ [kind |-> e.kind, id |-> e.id, field |-> e.field, value |-> e.value]
                     \in acked'
              /\ file' = FileOf(e.out)]_vars

\* two updates of different sessions have both returned true, and the file
\* lacks the change of one of them
C19_AcknowledgedUpdateLost ==
    /\ edits = {}
    /\ Cardinality(acked) = 2
    /\ \E a \in acked : Lost(a)

-----------------------------------------------------------------------------
(* The refresh of the tray menu: properties of Spec *)

-----------------------------------------------------------------------------
(* The comparison statistics: properties of StatsSpec *)

\* the sum of duration_minutes of the sessions whose date cell is one of
\* the dates
RECURSIVE MinutesDated(_, _)
MinutesDated(sessions, dates) ==
    IF sessions = <<>> THEN 0
    ELSE (IF Get(Head(sessions), DATE) \in dates
          THEN Get(Head(sessions), DURATION_MINUTES)[1].n[1]
          ELSE 0)
         + MinutesDated(Tail(sessions), dates)
\* the dates of the days from first to last
DatesOf(first, last) == {DateStr(CivilFromDays(d)) : d \in first..last}

\* the N-th most recent past window of a comparison
PastWindow(comparison, n) == comparison.past[4 - n]

\* the file holds one session, of 120 minutes, dated the day
OneSessionOfTwoHours(day) ==
    LET sessions == loadSessionsFromCSV(file)
    IN /\ Len(sessions) = 1
       /\ Get(sessions[1], DATE) = DateStr(CivilFromDays(day))
       /\ Get(sessions[1], DURATION_MINUTES) = Num(120)

\* C21: for N = 1, 2, 3 the N-th most recent past window of the day
\* comparison is the one day 7 * N days before today, a day of today's
\* weekday, and its value is the sum of duration_minutes of the sessions
\* dated that day, divided by 60; with one session of 120 minutes dated 7
\* days before today, "Last <Weekday>" is 2 hours and the other two past
\* windows are 0.
C21_PastDaysAreSameWeekday ==
    stats.asked =>
        LET sessions == loadSessionsFromCSV(file)
            today == stats.today
            day == stats.reply.day
        IN /\ \A n \in 1..3 :
                 /\ PastWindow(day, n).value
                        = Hours(MinutesDated(sessions, DatesOf(today - 7 * n, today - 7 * n)))
                 /\ PastWindow(day, n).range = formatShortDate(today - 7 * n)
                 /\ getDay(today - 7 * n) = getDay(today)
           /\ PastWindow(day, 1).label = <<"Last ", DayNames[getDay(today) + 1]>>
           /\ OneSessionOfTwoHours(today - 7) =>
                 /\ PastWindow(day, 1).value = <<2, 1>>
                 /\ PastWindow(day, 2).value = <<0, 1>>
                 /\ PastWindow(day, 3).value = <<0, 1>>

\* C21 witness: the statistics of a day whose only session, of 120 minutes,
\* is dated 7 days before
C21_OneSessionLastWeekday ==
    /\ stats.asked
    /\ OneSessionOfTwoHours(stats.today - 7)
    /\ PastWindow(stats.reply.day, 1).value = <<2, 1>>

\* the number of days of month m (1..12) of year y
DaysInMonth(y, m) ==
    IF m = 2 THEN (IF (y % 4 = 0 /\ y % 100 # 0) \/ y % 400 = 0 THEN 29 ELSE 28)
    ELSE IF m \in {4, 6, 9, 11} THEN 30
    ELSE 31

\* year and month (1..12) of the month n months before the month of today
MonthBefore(today, n) ==
    LET months == getFullYear(today) * 12 + getMonth(today) - n
    IN <<months \div 12, (months % 12) + 1>>

\* the last day of month of the N-th past month window: today's day of
\* month, or the last day of a shorter month
LastDayOfWindow(today, n) ==
    LET ym == MonthBefore(today, n)
        last == DaysInMonth(ym[1], ym[2])
    IN IF getDate(today) < last THEN getDate(today) ELSE last

\* the dates of the N-th past month window
MonthWindow(today, n) ==
    LET ym == MonthBefore(today, n)
    IN {DateStr(<<ym[1], ym[2], d>>) : d \in 1..LastDayOfWindow(today, n)}

\* C22: for every today and N = 1, 2, 3 the N-th past window of the month
\* comparison starts on day 1 of the month N months before today's month
\* and ends, in that month, on today's day of month, or on the month's last
\* day when the month is shorter; the earlier version of the handler takes
\* the same window for last month.
C22_PastMonthWindows ==
    stats.asked =>
        LET sessions == loadSessionsFromCSV(file)
            today == stats.today
            lastMonth == MonthBefore(today, 1)
        IN /\ \A n \in 1..3 :
                 LET month == MonthNames[MonthBefore(today, n)[2]]
                 IN /\ PastWindow(stats.reply.month, n).value
                           = Hours(MinutesDated(sessions, MonthWindow(today, n)))
                    /\ PastWindow(stats.reply.month, n).range
                           = <<<<month, 1>>, <<month, LastDayOfWindow(today, n)>>>>
           /\ CivilFromDays(LastMonthComparable(today)[1])
                  = <<lastMonth[1], lastMonth[2], 1>>
           /\ CivilFromDays(LastMonthComparable(today)[2])
                  = <<lastMonth[1], lastMonth[2], LastDayOfWindow(today, 1)>>

\* C22 witness: on 31 March of a leap year a session of 29 February is in
\* the window of last month, which ends that day
C22_LastMonthEndsWithFebruary ==
    /\ stats.asked
    /\ getMonth(stats.today) = 2 /\ getDate(stats.today) = 31
    /\ OneSessionOfTwoHours(stats.today - 31)
    /\ PastWindow(stats.reply.month, 1).value = <<2, 1>>
    /\ PastWindow(stats.reply.month, 1).range = <<<<"Feb", 1>>, <<"Feb", 29>>>>

\* the number of days from the Monday of the week of a day to that day:
\* 0 on a Monday, 6 on a Sunday
DaysIntoWeek(date) == (getDay(date) + 6) % 7

\* C23: the N-th past window of the week comparison starts on the Monday
\* of the week N weeks before the current week and ends exactly 7 * N days
\* before today, so that every past window spans as many days as the
\* current window, from the Monday of this week to today; a Sunday is the
\* last day of its week.
C23_PastWeeksAreLikeForLike ==
    stats.asked =>
        LET sessions == loadSessionsFromCSV(file)
            today == stats.today
            monday == today - DaysIntoWeek(today)
            week == stats.reply.week
        IN /\ getDay(monday) = 1
           /\ week.current.range = <<formatShortDate(monday), formatShortDate(today)>>
           /\ week.current.value = Hours(MinutesDated(sessions, DatesOf(monday, today)))
           /\ \A n \in 1..3 :
                 /\ PastWindow(week, n).value
                        = Hours(MinutesDated(sessions,
                                             DatesOf(monday - 7 * n, today - 7 * n)))
                 /\ PastWindow(week, n).range
                        = <<formatShortDate(monday - 7 * n), formatShortDate(today - 7 * n)>>

\* C23 witness: on a Sunday, a session of the Monday 13 days before is in
\* the window of last week
C23_SundayEndsItsWeek ==
    /\ stats.asked
    /\ getDay(stats.today) = 0
    /\ OneSessionOfTwoHours(stats.today - 13)
    /\ PastWindow(stats.reply.week, 1).value = <<2, 1>>

\* the value, a fraction, is minutes / 60
IsHoursOf(value, minutes) == value[2] > 0 /\ value[1] * 60 = minutes * value[2]

\* every value of a reply
ValuesOf(reply) ==
    {c.current.value : c \in {reply.day, reply.week, reply.month}}
    \cup {c.past[k].value : c \in {reply.day, reply.week, reply.month}, k \in 1..3}

\* C24: the total of a current window is the sum of duration_minutes over
\* exactly the sessions whose date lies in [windowStart, today], both days
\* included, divided by 60 and not rounded; sessions outside the window,
\* those of later days too, and sessions whose date is no date add nothing;
\* with no session every total is 0.
C24_CurrentWindowTotals ==
    stats.asked =>
        LET sessions == loadSessionsFromCSV(file)
            today == stats.today
            reply == stats.reply
        IN /\ IsHoursOf(reply.day.current.value,
                        MinutesDated(sessions, DatesOf(today, today)))
           /\ IsHoursOf(reply.week.current.value,
                        MinutesDated(sessions, DatesOf(today - DaysIntoWeek(today), today)))
           /\ IsHoursOf(reply.month.current.value,
                        MinutesDated(sessions, DatesOf(today - (getDate(today) - 1), today)))
           /\ sessions = <<>> => \A value \in ValuesOf(reply) : IsHoursOf(value, 0)

\* C24 witness: of a session of today, one of tomorrow and one whose date
\* is no date, today's 120 minutes alone make the total of this month
C24_OnlyTodayCounted ==
    /\ stats.asked
    /\ LET sessions == loadSessionsFromCSV(file)
       IN /\ Len(sessions) = 3
          /\ Get(sessions[1], DATE) = formatDateYYYYMMDD(stats.today)
          /\ Get(sessions[2], DATE) = formatDateYYYYMMDD(stats.today + 1)
          /\ Get(sessions[3], DATE) = NoDate
    /\ stats.reply.month.current.value = <<2, 1>>

-----------------------------------------------------------------------------
(* The session store: appends after rewrites (StoreSpec) *)

\* C25: after any sequence of appends, updates and deletes that do not
\* overlap, an append adds exactly one row and leaves every row that was
\* there intact and parseable by itself: the header comes first when the
\* file was empty or missing, the new row is never merged into the last
\* one, and the next load returns one session more.
C25_AppendNeverMerges ==
    [][\A s \in saves :
          WritesAlone(s) =>
              LET before == loadSessionsFromCSV(file)
                  after == loadSessionsFromCSV(file')
              IN /\ Len(after) = Len(before) + 1
                 /\ \A i \in 1..Len(before) : after[i] = before[i]
                 /\ SameStoredFields(after[Len(after)], StoredFieldsOf(s.data, tz))
                 /\ (~file.exists \/ IsEmptyFile(file)) =>
                        file'.lines[1] = HeaderLine(HEADERS, LF)]_vars

\* C26: after every update or delete that succeeds, whatever the field name
\* and the value passed to the update, the rewritten file has exactly the
\* columns date, start_time, end_time, duration_minutes, project, notes, in
\* this order: none added, none dropped, none moved.
C26_RewriteKeepsColumns ==
    [][\A e \in edits :
          (EditWrite(e) /\ file'.lines # <<>>) =>
              /\ file'.lines[1].cells = HEADERS
              /\ \A i \in 1..Len(file'.lines) :
                    Len(file'.lines[i].cells) = Len(HEADERS)]_vars

-----------------------------------------------------------------------------
(* The date of a saved session (Spec) *)

\* the calendar date of the instant t in the time zone
LocalDate(t, zone) == DateStr(CivilFromDays(BaseDay + (t + zone * MsPerMinute) \div DayMs))

\* C27: the date saved with a session is the local calendar date on which
\* the session started, the date that goes with the local time of day in
\* start_time, for every instant of the start and every offset of the local
\* time zone, near local midnight too.
C27_DateIsLocalStartDate ==
    [][\A s \in saves :
          SaveWrite(s) =>
              LET after == loadSessionsFromCSV(file')
                  saved == after[Len(after)]
              IN /\ Get(saved, START_TIME) = ToTimeString(s.data.startTime, tz)
                 /\ Get(saved, DATE) = LocalDate(s.data.startTime, tz)]_vars

-----------------------------------------------------------------------------
(* The project store: read failures (ProjectSpec) *)

\* the projects projects.json holds, readable or not
HeldProjects(f) == IF f.kind \in {"array", "unreadable"} THEN f.entries ELSE <<>>

\* C28: when reading projects.json fails for a reason other than the file
\* being absent, the call of load, add, updateColor or delete fails and
\* writes nothing; and an add that succeeds removes no project that was
\* stored before it.
C28_ReadFailureSurfaced ==
    [][/\ (projectStore.file.kind = "unreadable"
           /\ projectStore'.nCalls = projectStore.nCalls + 1) =>
              /\ ~projectStore'.result.ok
              /\ projectStore'.result.serial = projectStore'.nCalls
              /\ projectStore'.calls = projectStore.calls
              /\ projectStore'.file = projectStore.file
       /\ \A c \in projectStore.calls :
              (ProjectWrite(c) /\ c.op = "addProject" /\ projectStore.nCalls = 1) =>
                  \A i \in 1..Len(HeldProjects(projectStore.file)) :
                      \E j \in 1..Len(HeldProjects(projectStore'.file)) :
                          HeldProjects(projectStore'.file)[j]
                              = HeldProjects(projectStore.file)[i]]_vars

-----------------------------------------------------------------------------
(* The notes dialogs of a session and the next session (DialogSpec) *)

\* C29: a response of a notes dialog ends a session only when the dialog
\* was opened during that session: when Stop is clicked twice for a session
\* and a new session is started after the first response has ended the old
\* one, the second response, which comes late, does not stop the new
\* session and no row is appended for it.
C29_LateResponseEndsNothing ==
    [][\A serial \in 0..MaxRestarts, notes \in NotesInputs :
          (DialogSubmit(serial, notes) /\ isSessionActive /\ serial # started) =>
              /\ isSessionActive'
              /\ sessionStartTime' = sessionStartTime
              /\ saves' = saves]_vars

-----------------------------------------------------------------------------
(* The session store: appends that overlap other calls (StoreSpec) *)

\* the call that settled last is an append that succeeded
JustAppended == lastResult.op = "saveSession" /\ lastResult.ok

\* the session that the load of file returns last is among those that the
\* load of file' returns
LastSessionKept ==
    LET before == loadSessionsFromCSV(file)
        after == loadSessionsFromCSV(file')
    IN before # <<>> =>
           \E j \in 1..Len(after) : SameStoredFields(after[j], before[Len(before)])

\* C30: a session whose append has completed is returned by every later
\* load until a delete targets it, however the append is interleaved with
\* an update or a delete of another session and with another append in
\* flight (two saves on an empty file, for one).
C30_CompletedAppendStays ==
    [][/\ \A e \in edits :
              (/\ EditWrite(e)
               /\ JustAppended
               /\ loadSessionsFromCSV(file) # <<>>
               /\ Get(loadSessionsFromCSV(file)[Len(loadSessionsFromCSV(file))], ID)
                      # Num(e.id)) => LastSessionKept
       /\ \A s \in saves : (SaveWrite(s) /\ JustAppended) => LastSessionKept]_vars

====
